---- MODULE Spec2Model ----
(***************************************************************************)
(* pnut: the command dispatch and scheduling pipeline of                   *)
(* pnut/dispatcher.py.  Three threads share two events and one queue:      *)
(*   - TiVoRemoteDispatcher.run reads raw events, maps them, sets or       *)
(*     clears _key_release and schedules Action / RepeatingAction objects; *)
(*   - ActionScheduler.run dequeues and executes them one at a time;       *)
(*   - main waits on _exit.                                                *)
(* Every step below is one atomic access to the shared state (the events,  *)
(* the queue, the closure cell `match`) together with the thread-local     *)
(* code around it.  Times and steps are in units of 0.001.                 *)
(***************************************************************************)
EXTENDS Integers, Sequences, FiniteSets, TLC

VARIABLES
    dpc,          \* TiVoRemoteDispatcher.run: "unstarted", "head", "read", "map", "branch", "closed"
    data,         \* the raw event returned by the last self.dev.read(64)
    match,        \* the local `match` of run: one cell, shared by every target closure
    reads,        \* number of raw events read so far
    keyRelease,   \* _key_release.is_set()
    exitFlag,     \* _exit.is_set()
    queue,        \* ActionScheduler.queue: ids of the queued actions, oldest first
    actions,      \* every action the queue accepted, in acceptance order; id = index
    spc,          \* ActionScheduler.run: "unstarted", "head", "get", "exec", "stopped"
    lastIter,     \* the scheduler's iteration since its loop head: kind "none", "action" or "timeout",
                  \* whether _key_release was set when its RepeatingAction began to execute,
                  \* whether keep_alive was called in it, whether it ended in the bare except
    started,      \* ids in the order their execute began
    lastCall,     \* the most recent target invocation
    callOrder,    \* ids in the order of their target invocations, repetitions collapsed
    escaped,      \* ids of the actions whose execute let an exception out
    externals,    \* number of schedule() calls made by another producer
    relDuring,    \* ids of the repeating actions that were executing when _key_release was set
    relCalls,     \* target invocations of the executing action since _key_release was last set
    mainPc,       \* main: "start", "construct", "wait", "handled" (in the except clause),
                  \* "returned", "exited" (sys.exit)
    opens,        \* the outcomes of the self.dev.open calls, in order: TRUE opened, FALSE IOError
    remote        \* REMOTE, a UniversalRemote: sources, source_default and button_map as
                  \* sets of <<key, value>> pairs, the active source its source_control
                  \* reports, the arguments of the last press_button and the calls it made

vars == <<dpc, data, match, reads, keyRelease, exitFlag, queue, actions, spc, lastIter,
          started, lastCall, callOrder, escaped, externals, relDuring,
          relCalls, mainPc, opens, remote>>

(* ------------------------------ bounds -------------------------------- *)

\* raw events the dispatcher reads in one run
MaxReads == 3
\* target invocations one RepeatingAction makes before it only waits for the release
MaxRepeat == 3
\* schedule() calls made by a producer other than the dispatcher
MaxExternal == 1

(* ------------------------- program constants -------------------------- *)

StepInit == 25
StepIncrement == 25
FirstSleep == 250
NextSleep == 50

KEY_RELEASE == "KEY_RELEASE"

(* ----------------------------- keymap.map ------------------------------ *)

\* raw events: one unmatched code, the release code, one plain button, one
\* repeating button without `accelerates`, one repeating accelerating button
RawEvents == {"raw_unknown", "raw_release", "raw_select", "raw_up", "raw_volume_up"}

\* map() returned None
NoMatch == [value |-> "None", repeat |-> FALSE, accelerates |-> "absent"]

KeymapMap(raw) ==
    CASE raw = "raw_release"   -> [value |-> KEY_RELEASE, repeat |-> FALSE, accelerates |-> "absent"]
      [] raw = "raw_select"    -> [value |-> "select", repeat |-> FALSE, accelerates |-> "absent"]
      [] raw = "raw_up"        -> [value |-> "up", repeat |-> TRUE, accelerates |-> "absent"]
      [] raw = "raw_volume_up" -> [value |-> "volume_up", repeat |-> TRUE, accelerates |-> "True"]
      [] OTHER                 -> NoMatch

\* match.get('accelerates'): None when the key is absent
GetAccelerates(m) == IF m.accelerates = "absent" THEN "None" ELSE m.accelerates

\* Python truth value of self.accelerates
Truthy(x) == x = "True"

(* ------------------------------ actions ------------------------------- *)

\* a fresh action object: its class, its fields, and the locals of execute
NewAction(cls, accelerates, value, producer) ==
    [cls |-> cls, accelerates |-> accelerates, created_for |-> value,
     producer |-> producer, pc |-> "queued",
     step |-> 0, sleep_duration |-> 0, n |-> 0, slept |-> 0]

\* a _create_action that ignores the mapping's repeat flag
CreatePlainAction(m) == NewAction("Action", "False", m.value, "dispatcher")

\* TiVoRemoteDispatcher._create_action
CreateAction(m) ==
    IF m.repeat
    THEN NewAction("RepeatingAction", GetAccelerates(m), m.value, "dispatcher")
    ELSE NewAction("Action", "False", m.value, "dispatcher")

Ids == 1..Len(actions)

Running == {a \in Ids : actions[a].pc \in {"loop", "call"}}

\* both threads are daemon=True: the process, and the threads with it, ends
\* when the main thread ends, by sys.exit(1) or by returning from main()
ProcessAlive == mainPc \notin {"exited", "returned"}


\* the scheduler has not begun an iteration yet
NoIter == [kind |-> "none", keep_alive |-> FALSE, caught |-> FALSE, released |-> FALSE]

\* no target has been invoked yet
NoCall == [act |-> 0, k |-> 0, button |-> "None", kwargs |-> <<>>, raised |-> FALSE]

(* --------------------------- UniversalRemote --------------------------- *)

\* a dict is the set of its <<key, value>> pairs, one pair per key
Dicts(keys, values) ==
    UNION {{{<<k, f[k]>> : k \in S} : f \in [S -> values]} : S \in SUBSET keys}

Keys(d) == {p[1] : p \in d}

\* d.get(k, default)
DictGet(d, k, default) ==
    IF k \in Keys(d) THEN (CHOOSE p \in d : p[1] = k)[2] ELSE default

\* the source names the source_control can report, the device handles, the
\* symbolic commands, the callables of a button_map and the keyword arguments
\* a target passes (none, or the step of an accelerating repeat)
SourceNames == {"appletv", "tivo", "tv"}
Devices == {"atv_device", "tivo_device"}
Commands == {"select", "volume_up"}
Callables == {"f", "g"}
KwargsSets == {{}, {<<"step", StepInit>>}}

\* press_button has not been called
NoPress == [command |-> "None", kwargs |-> {}]

\* UniversalRemote(): sources={}, source_default=None, button_map={}
NewRemote ==
    [sources |-> {}, source_default |-> "None", button_map |-> {},
     active_source |-> "None", pressed |-> NoPress, invoked |-> <<>>]

\* the remotes a configuration can build: only "appletv" and "tivo" are
\* candidates for keys of sources
ConfiguredRemotes ==
    [sources : Dicts(SourceNames \ {"tv"}, Devices),
     source_default : Devices \cup {"None"},
     button_map : Dicts(Commands, Dicts(Devices, Callables)),
     active_source : SourceNames,
     pressed : {NoPress},
     invoked : {<<>>}]

\* a source property that forgets source_default
SourceOrNone(r) == DictGet(r.sources, r.active_source, "None")

\* UniversalRemote.source:
\* self.sources.get(self.source_control.active_source, self.source_default)
Source(r) == DictGet(r.sources, r.active_source, r.source_default)

\* if button: a callable is truthy, None is not
ButtonTruthy(button) == button # "None"

\* press_button(button, **kwargs):
\* button = self.button_map.get(button, {}).get(self.source); if button: button(**kwargs)
PressButton(command, kwargs) ==
    /\ LET button == DictGet(DictGet(remote.button_map, command, {}), Source(remote), "None")
       IN remote' = [remote EXCEPT
                        !.pressed = [command |-> command, kwargs |-> kwargs],
                        !.invoked = IF ButtonTruthy(button)
                                    THEN <<[callable |-> button, kwargs |-> kwargs]>>
                                    ELSE <<>>]
    /\ UNCHANGED <<dpc, data, match, reads, keyRelease, exitFlag, queue, actions, spc,
                   lastIter, started, lastCall, callOrder, escaped, externals, relDuring,
                   relCalls, mainPc, opens>>

\* the source_control reports another active source; no press_button is in progress
SourceSelected(name) ==
    /\ name # remote.active_source
    /\ remote' = [remote EXCEPT !.active_source = name, !.pressed = NoPress, !.invoked = <<>>]
    /\ UNCHANGED <<dpc, data, match, reads, keyRelease, exitFlag, queue, actions, spc,
                   lastIter, started, lastCall, callOrder, escaped, externals, relDuring,
                   relCalls, mainPc, opens>>

(* ------------------------------- Init --------------------------------- *)

\* the module's globals and the threads before main() runs
DaemonInit ==
    /\ dpc = "unstarted"
    /\ data = "raw_unknown"
    /\ match = NoMatch
    /\ reads = 0
    /\ keyRelease = FALSE
    /\ exitFlag = FALSE
    /\ queue = <<>>
    /\ actions = <<>>
    /\ spc = "unstarted"
    /\ lastIter = NoIter
    /\ started = <<>>
    /\ lastCall = NoCall
    /\ callOrder = <<>>
    /\ escaped = {}
    /\ externals = 0
    /\ relDuring = {}
    /\ relCalls = 0
    /\ mainPc = "start"
    /\ opens = <<>>

Init == DaemonInit /\ remote = NewRemote

\* the remote alone, as a configuration built it
RemoteInit == DaemonInit /\ remote \in ConfiguredRemotes

RemoteNext ==
    \/ \E command \in Commands, kwargs \in KwargsSets : PressButton(command, kwargs)
    \/ \E name \in SourceNames : SourceSelected(name)

RemoteSpec == RemoteInit /\ [][RemoteNext]_vars

(* --------------------- ActionScheduler.schedule ------------------------ *)

\* queue.put(action) on an unbounded queue.Queue: appended at the tail, never blocks
QueuePut(q, a) == Append(q, a)

\* a queue.Queue(maxsize=1): put blocks while an action is queued
QueueOfOne(q) == Len(q) < 1

\* self.queue = queue.Queue(): no maxsize, put never waits for room
QueueHasRoom(q) == TRUE

\* schedule(action): the queue accepts the action; its id is its acceptance rank
Schedule(action) ==
    /\ QueueHasRoom(queue)
    /\ actions' = Append(actions, action)
    /\ queue' = QueuePut(queue, Len(actions) + 1)

(* ---------------------- TiVoRemoteDispatcher.run ----------------------- *)

\* TiVoRemoteDispatcher.run: while not _exit.is_set()
DispContinues == ~exitFlag

\* while not _exit.is_set(): ... ; after the loop, self.dev.close()
DispHead ==
    /\ ProcessAlive
    /\ dpc = "head"
    /\ dpc' = IF DispContinues THEN "read" ELSE "closed"
    /\ UNCHANGED <<data, match, reads, keyRelease, exitFlag, queue, actions, spc, lastIter,
                   started, lastCall, callOrder, escaped, externals, relDuring,
                   relCalls, mainPc, opens,
                   remote>>

\* an event that a read leaves as it was
KeepFlag(flag) == flag

\* _key_release.clear()
ClearFlag(flag) == FALSE

\* data = self.dev.read(64) blocks until the device delivers a raw event;
\* then _key_release.clear()
DispRead ==
    /\ ProcessAlive
    /\ dpc = "read"
    /\ reads < MaxReads
    /\ \E raw \in RawEvents : data' = raw
    /\ reads' = reads + 1
    /\ keyRelease' = ClearFlag(keyRelease)
    /\ relCalls' = IF keyRelease' THEN relCalls ELSE 0
    /\ dpc' = "map"
    /\ UNCHANGED <<match, exitFlag, queue, actions, spc, lastIter,
                   started, lastCall, callOrder, escaped, externals, relDuring,
                   mainPc, opens,
                   remote>>

\* match = keymap.map(data): rebinds the cell every target closure reads
DispMap ==
    /\ ProcessAlive
    /\ dpc = "map"
    /\ match' = KeymapMap(data)
    /\ dpc' = "branch"
    /\ UNCHANGED <<data, reads, keyRelease, exitFlag, queue, actions, spc, lastIter,
                   started, lastCall, callOrder, escaped, externals, relDuring,
                   relCalls, mainPc, opens,
                   remote>>

\* a loop body without the `continue` after _key_release.set()
SchedulesAnyMatch(m) == m # NoMatch

\* which matches reach the code that creates and schedules an action:
\* `if match is None: continue` and `if match['value'] == 'KEY_RELEASE': ...; continue`
Schedules(m) == m # NoMatch /\ m.value # KEY_RELEASE

\* if match is None: continue
\* if match['value'] == 'KEY_RELEASE': _key_release.set(); continue
\* else: define target, create the action, self.scheduler.schedule(action)
DispBranch ==
    /\ ProcessAlive
    /\ dpc = "branch"
    /\ dpc' = "head"
    /\ IF match # NoMatch /\ match.value = KEY_RELEASE
       THEN /\ keyRelease' = TRUE
            /\ relCalls' = 0
            /\ relDuring' = relDuring \cup
                   {a \in Running : actions[a].cls = "RepeatingAction"}
       ELSE UNCHANGED <<keyRelease, relDuring, relCalls>>
    /\ IF Schedules(match)
       THEN Schedule(CreateAction(match))
       ELSE UNCHANGED <<queue, actions>>
    /\ UNCHANGED <<data, match, reads, exitFlag, spc, lastIter,
                   started, lastCall, callOrder, escaped, externals, mainPc, opens,
                   remote>>

(* ------------------------- another producer ---------------------------- *)

\* scheduler.schedule(ExitAction()) from a thread other than the dispatcher
ScheduleExternal ==
    /\ ProcessAlive
    /\ spc # "unstarted"
    /\ externals < MaxExternal
    /\ externals' = externals + 1
    /\ Schedule(NewAction("ExitAction", "False", "exit", "external"))
    /\ UNCHANGED <<dpc, data, match, reads, keyRelease, exitFlag, spc, lastIter,
                   started, lastCall, callOrder, escaped, relDuring,
                   relCalls, mainPc, opens,
                   remote>>

(* ------------------------------ targets -------------------------------- *)

\* def target(**kwargs): REMOTE.press_button(match['value'], **kwargs)
\* The closure reads the cell `match` when it runs.  With match None the
\* subscript raises TypeError and press_button is not reached (button "None");
\* otherwise press_button(match['value'], **kwargs) is called and `fails` says
\* whether the downstream call raised.  k is the ordinal of the invocation
\* within its execute call.
TargetCall(a, kwargs, fails) ==
    [act |-> a, k |-> actions[a].n + 1,
     button |-> match.value, kwargs |-> kwargs,
     raised |-> (match = NoMatch \/ fails)]

\* a wrapper that lets the failure of the target out
PropagatesUncaught(raised) == raised

\* Action.__init__._target: try: target(*args, **kw) / except: logging.info(...)
\* whether a failure of the target leaves the wrapper
Propagates(raised) == FALSE

\* the invocation log after a call by action a
Called(a) == IF callOrder # <<>> /\ callOrder[Len(callOrder)] = a
             THEN callOrder ELSE Append(callOrder, a)

(* ------------------------- ActionScheduler.run ------------------------- *)

\* a queue that hands out the newest element
QueueGetNewest(q) == Len(q)

\* queue.get(): the position of the element a queue.Queue hands out (the oldest)
QueueGetIndex(q) == 1

\* a get that hands out the element and leaves it in the queue
QueueKeep(q, i) == q

\* queue.get(): the queue without the element it handed out
QueueRemove(q, i) == [j \in 1..(Len(q) - 1) |-> IF j < i THEN q[j] ELSE q[j + 1]]

\* a scheduler that would also dequeue while an execute call is still open
IdleOrExecuting == spc \in {"get", "exec"}

\* the scheduler thread is in queue.get: the previous action.execute has returned
Idle == spc = "get"

\* a loop that an exception ends
OnExceptionStop == "stopped"

\* except: logging.info('Encountered exception in scheduler.'): where the
\* scheduler thread goes on after an exception left the body of an iteration
OnException == "head"

\* the attributes of a UniversalRemote: those __init__ sets, the property and the method
UniversalRemoteAttrs ==
    {"sources", "source_control", "source_default", "button_map", "source", "press_button"}

\* REMOTE.remote.keep_alive(): the call is made iff REMOTE has an attribute
\* `remote`; otherwise the lookup raises AttributeError
KeepAliveCalled == "remote" \in UniversalRemoteAttrs

\* a loop head that does not look at _exit
IgnoreExit == TRUE

\* ActionScheduler.run: while not _exit.is_set()
SchedContinues == ~exitFlag

\* while not _exit.is_set():
SchedHead ==
    /\ ProcessAlive
    /\ spc = "head"
    /\ spc' = IF SchedContinues THEN "get" ELSE "stopped"
    /\ lastIter' = NoIter
    /\ UNCHANGED <<dpc, data, match, reads, keyRelease, exitFlag, queue, actions,
                   started, lastCall, callOrder, escaped, externals, relDuring,
                   relCalls, mainPc, opens,
                   remote>>

\* the locals of execute at its entry: RepeatingAction sets step = 0.025 and
\* sleep_duration = 0.25 and goes to its loop head; Action and ExitAction have
\* a single statement
EnterExecute(act) ==
    IF act.cls = "RepeatingAction"
    THEN [act EXCEPT !.pc = "loop", !.step = StepInit, !.sleep_duration = FirstSleep]
    ELSE [act EXCEPT !.pc = "call"]

\* action = self.queue.get(timeout=3600) returns an action; action.execute(self) is entered
SchedGet ==
    /\ ProcessAlive
    /\ Idle
    /\ queue # <<>>
    /\ LET i == QueueGetIndex(queue)
           a == queue[i]
       IN  /\ queue' = QueueRemove(queue, i)
           /\ actions' = [actions EXCEPT ![a] = EnterExecute(actions[a])]
           /\ started' = Append(started, a)
    /\ spc' = "exec"
    /\ lastIter' = [kind |-> "action", keep_alive |-> FALSE, caught |-> FALSE,
                    released |-> keyRelease /\ actions[queue[QueueGetIndex(queue)]].cls = "RepeatingAction"]
    /\ relCalls' = 0
    /\ UNCHANGED <<dpc, data, match, reads, keyRelease, exitFlag,
                   lastCall, callOrder, escaped, externals, relDuring,
                   mainPc, opens,
                   remote>>

\* queue.get times out on the empty queue (queue.Empty):
\* REMOTE.remote.keep_alive(); continue
\* an exception of that statement is caught by the bare except of the loop
SchedTimeout ==
    /\ ProcessAlive
    /\ Idle
    /\ queue = <<>>
    /\ lastIter' = [kind |-> "timeout", released |-> FALSE, keep_alive |-> KeepAliveCalled,
                    caught |-> ~KeepAliveCalled]
    /\ spc' = IF KeepAliveCalled THEN "head" ELSE OnException
    /\ UNCHANGED <<dpc, data, match, reads, keyRelease, exitFlag, queue, actions,
                   started, lastCall, callOrder, escaped, externals, relDuring,
                   relCalls, mainPc, opens,
                   remote>>

\* Action.execute: self.target()
ExecAction(a) ==
    /\ ProcessAlive
    /\ actions[a].cls = "Action"
    /\ actions[a].pc = "call"
    /\ \E fails \in BOOLEAN :
          LET c == TargetCall(a, <<>>, fails)
          IN  /\ lastCall' = c
              /\ IF Propagates(c.raised)
                 THEN /\ escaped' = escaped \cup {a}
                      /\ lastIter' = [lastIter EXCEPT !.caught = TRUE]
                      /\ spc' = OnException
                 ELSE /\ escaped' = escaped
                      /\ lastIter' = lastIter
                      /\ spc' = "head"
    /\ callOrder' = Called(a)
    /\ actions' = [actions EXCEPT ![a].pc = "done", ![a].n = 1]
    /\ UNCHANGED <<dpc, data, match, reads, keyRelease, exitFlag, queue,
                   started, externals, relDuring,
                   relCalls, mainPc, opens,
                   remote>>

\* ExitAction.execute: _exit.set()
ExecExit(a) ==
    /\ ProcessAlive
    /\ actions[a].cls = "ExitAction"
    /\ actions[a].pc = "call"
    /\ exitFlag' = TRUE
    /\ actions' = [actions EXCEPT ![a].pc = "done"]
    /\ spc' = "head"
    /\ UNCHANGED <<dpc, data, match, reads, keyRelease, queue, lastIter,
                   started, lastCall, callOrder, escaped, externals, relDuring,
                   relCalls, mainPc, opens,
                   remote>>

\* a test that consumes the signal it finds
ConsumeFlag(flag) == FALSE

\* _key_release.is_set() returns the flag and leaves it as it is
AfterIsSet(flag) == flag

\* a loop that makes at least two invocations before it looks at the signal
LoopContinuesTwice(a) == ~keyRelease \/ actions[a].n < 2

\* RepeatingAction.execute: while not _key_release.is_set()
LoopContinues(a) == ~keyRelease

\* RepeatingAction.execute: while not _key_release.is_set():
RepLoop(a) ==
    /\ ProcessAlive
    /\ actions[a].cls = "RepeatingAction"
    /\ actions[a].pc = "loop"
    /\ IF ~LoopContinues(a)
       THEN /\ actions' = [actions EXCEPT ![a].pc = "done"]
            /\ spc' = "head"
            /\ relCalls' = 0
       ELSE /\ actions[a].n < MaxRepeat
            /\ actions' = [actions EXCEPT ![a].pc = "call"]
            /\ UNCHANGED <<spc, relCalls>>
    /\ keyRelease' = AfterIsSet(keyRelease)
    /\ UNCHANGED <<dpc, data, match, reads, exitFlag, queue, lastIter,
                   started, lastCall, callOrder, escaped, externals, relDuring,
                   mainPc, opens,
                   remote>>

\* a step that does not grow
StepStuck(step) == step

\* step += 0.025
StepNext(step) == step + StepIncrement

\* a sleep that never shortens
SleepKeepFirst(d) == d

\* sleep_duration = 0.05
SleepNext(d) == NextSleep

\* the body of the loop:
\*   if self.accelerates: self.target(step=step); step += 0.025
\*   else: self.target()
\*   time.sleep(sleep_duration); sleep_duration = 0.05
RepCall(a) ==
    /\ ProcessAlive
    /\ actions[a].cls = "RepeatingAction"
    /\ actions[a].pc = "call"
    /\ \E fails \in BOOLEAN :
          LET act == actions[a]
              acc == Truthy(act.accelerates)
              c   == TargetCall(a, IF acc THEN <<act.step>> ELSE <<>>, fails)
          IN  /\ lastCall' = c
              /\ IF Propagates(c.raised)
                 THEN /\ escaped' = escaped \cup {a}
                      /\ lastIter' = [lastIter EXCEPT !.caught = TRUE]
                      /\ spc' = OnException
                      /\ actions' = [actions EXCEPT ![a].pc = "done", ![a].n = act.n + 1]
                 ELSE /\ escaped' = escaped
                      /\ lastIter' = lastIter
                      /\ spc' = spc
                      /\ actions' = [actions EXCEPT
                            ![a].pc = "loop",
                            ![a].n = act.n + 1,
                            ![a].step = IF acc THEN StepNext(act.step) ELSE act.step,
                            ![a].slept = act.slept + act.sleep_duration,
                            ![a].sleep_duration = SleepNext(act.sleep_duration)]
    /\ callOrder' = Called(a)
    /\ relCalls' = IF keyRelease THEN relCalls + 1 ELSE relCalls
    /\ UNCHANGED <<dpc, data, match, reads, keyRelease, exitFlag, queue,
                   started, externals, relDuring,
                   mainPc, opens,
                   remote>>

(* -------------------------------- main --------------------------------- *)

\* scheduler = ActionScheduler(); scheduler.start()
MainStartScheduler ==
    /\ mainPc = "start"
    /\ mainPc' = "construct"
    /\ spc' = "head"
    /\ UNCHANGED <<dpc, data, match, reads, keyRelease, exitFlag, queue, actions, lastIter,
                   started, lastCall, callOrder, escaped, externals, relDuring,
                   relCalls, opens,
                   remote>>

\* a constructor that goes on after the failed open
AfterOpenIgnoreFailure(ok) == "wait"

\* TiVoRemoteDispatcher.__init__: on IOError sys.exit(1), which leaves main;
\* otherwise main goes on to dispatcher.start() and _exit.wait()
AfterOpen(ok) == IF ok THEN "wait" ELSE "exited"

\* dispatcher = TiVoRemoteDispatcher(scheduler): self.dev.open(vid, pid) succeeds
\* or raises IOError; dispatcher.start(); _exit.wait()
MainConstruct ==
    /\ mainPc = "construct"
    /\ \E ok \in BOOLEAN :
          /\ opens' = Append(opens, ok)
          /\ mainPc' = AfterOpen(ok)
          /\ dpc' = IF AfterOpen(ok) = "wait" THEN "head" ELSE dpc
    /\ UNCHANGED <<data, match, reads, keyRelease, exitFlag, queue, actions, spc, lastIter,
                   started, lastCall, callOrder, escaped, externals, relDuring,
                   relCalls,
                   remote>>

\* except KeyboardInterrupt: _exit.set()
MainInterrupt ==
    /\ mainPc \in {"start", "construct", "wait"}
    /\ ~exitFlag
    /\ exitFlag' = TRUE
    /\ mainPc' = "handled"
    /\ UNCHANGED <<dpc, data, match, reads, keyRelease, queue, actions, spc, lastIter,
                   started, lastCall, callOrder, escaped, externals, relDuring,
                   relCalls, opens,
                   remote>>

(* ---------------------------- specification ---------------------------- *)

\* main() returns once _exit.wait() returns or the interrupt was handled
MainReturn ==
    /\ \/ mainPc = "wait" /\ exitFlag
       \/ mainPc = "handled"
    /\ mainPc' = "returned"
    /\ UNCHANGED <<dpc, data, match, reads, keyRelease, exitFlag, queue, actions, spc,
                   lastIter, started, lastCall, callOrder, escaped, externals, relDuring,
                   relCalls, opens,
                   remote>>

Next ==
    \/ MainStartScheduler
    \/ MainConstruct
    \/ DispHead
    \/ DispRead
    \/ DispMap
    \/ DispBranch
    \/ ScheduleExternal
    \/ SchedHead
    \/ SchedGet
    \/ SchedTimeout
    \/ \E a \in Ids : ExecAction(a)
    \/ \E a \in Ids : ExecExit(a)
    \/ \E a \in Ids : RepLoop(a)
    \/ \E a \in Ids : RepCall(a)
    \/ MainInterrupt
    \/ MainReturn

Spec == Init /\ [][Next]_vars

(* ------------------------------- claims -------------------------------- *)

Repeating(a) == actions[a].cls = "RepeatingAction"

Accelerating(a) == Repeating(a) /\ Truthy(actions[a].accelerates)

\* C1: actions begin executing in exactly the order in which the queue accepted
\* them, whichever producer submitted them: the i-th execution to begin is that
\* of the i-th accepted action.
C1_FifoOrder == \A i \in 1..Len(started) : started[i] = i

\* three executions have begun, of actions from both producers, with a fourth queued
C1_Witness ==
    /\ Len(started) = 3
    /\ Len(actions) = 4
    /\ actions[2].producer = "dispatcher"
    /\ actions[3].producer = "external"

\* C2: at most one action is executing; the scheduler is in queue.get only when
\* no execute call is open; the target invocations of different actions are
\* never interleaved (no action invokes again after another one has).
C2_OneAtATime ==
    /\ Cardinality(Running) <= 1
    /\ (spc \in {"head", "get", "stopped"} => Running = {})
    /\ \A i, j \in 1..Len(callOrder) : i # j => callOrder[i] # callOrder[j]

\* a RepeatingAction is past its second invocation and in its loop body while
\* another action waits in the queue and an earlier one has already invoked
C2_Witness ==
    \E a \in Running :
        /\ Repeating(a)
        /\ actions[a].pc = "call"
        /\ actions[a].n >= 2
        /\ queue # <<>>
        /\ Len(callOrder) >= 2

\* C3: every target invocation that reaches press_button passes it the symbolic
\* value of the raw event for which its action was created.
C3_TargetValue ==
    (lastCall # NoCall /\ lastCall.button # "None") =>
        lastCall.button = actions[lastCall.act].created_for

C5_ReleaseStopsRepeat ==
    [][\A a \in relDuring :
          (actions[a].pc = "loop" /\ actions'[a].pc # "loop") => actions'[a].pc = "done"]_vars

\* C6: a RepeatingAction ends only at its loop head and only with _key_release
\* set; with the signal unset the loop head leads to another target invocation,
\* and the loop body leads back to the loop head with one more invocation made.
C6_StopsOnlyOnRelease ==
    [][\A a \in Ids : Repeating(a) =>
          /\ (actions[a].pc # "done" /\ actions'[a].pc = "done")
                => (actions[a].pc = "loop" /\ keyRelease)
          /\ (actions[a].pc = "loop" /\ actions'[a].pc # "loop" /\ ~keyRelease)
                => actions'[a].pc = "call"
          /\ (actions[a].pc = "call" /\ actions'[a].pc # "call")
                => (actions'[a].pc = "loop" /\ actions'[a].n = actions[a].n + 1)]_vars

\* a RepeatingAction has ended after three invocations, the last of which
\* raised, and after the dispatcher had read further events
C6_Witness ==
    \E a \in Ids :
        /\ Repeating(a)
        /\ actions[a].pc = "done"
        /\ actions[a].n = 3
        /\ lastCall.act = a
        /\ lastCall.raised
        /\ reads >= 3

\* C7: no failure of a target leaves execute; after a failed invocation a plain
\* Action is done and the scheduler thread is back in its loop (any open
\* execute call is that of a later action), a RepeatingAction goes on as after
\* a successful invocation, and the scheduler stops only on the exit signal.
C7_FailureIsolated ==
    /\ escaped = {}
    /\ (spc = "stopped" => exitFlag)
    /\ lastCall.raised =>
          LET a == lastCall.act
          IN  /\ actions[a].n = lastCall.k
              /\ Repeating(a) => actions[a].pc \in {"loop", "call", "done"}
              /\ ~Repeating(a) =>
                    /\ actions[a].pc = "done"
                    /\ \A b \in Running : b > a

\* the target of an action raised and the scheduler has begun executing the
\* action queued behind it
C7_Witness ==
    /\ lastCall.raised
    /\ \E b \in Running : b = lastCall.act + 1

C9_FixedCadence ==
    /\ \A a \in Ids : (Repeating(a) /\ ~Accelerating(a) /\ actions[a].pc # "queued") =>
          /\ actions[a].slept = IF actions[a].n = 0 THEN 0 ELSE 250 + 50 * (actions[a].n - 1)
          /\ actions[a].sleep_duration = IF actions[a].n = 0 THEN 250 ELSE 50
    /\ (lastCall # NoCall /\ Repeating(lastCall.act) /\ ~Accelerating(lastCall.act)) =>
          lastCall.kwargs = <<>>

\* a RepeatingAction without acceleration has made three invocations
C9_Witness ==
    \E a \in Ids :
        /\ Repeating(a)
        /\ ~Accelerating(a)
        /\ actions[a].n = 3
        /\ actions[a].slept = 350
        /\ lastCall.act = a
        /\ lastCall.kwargs = <<>>

Positions(seq, a) == {i \in 1..Len(seq) : seq[i] = a}

FromDispatcher(a) == actions[a].producer = "dispatcher"

\* C11 (as amended): every action the dispatcher created is executed at most
\* once and is never dropped: until the scheduler dequeues it, it is in the
\* queue exactly once, behind the actions accepted before it; once dequeued it
\* is no longer queued and its execute has begun exactly once.
C11_AtMostOnceNeverDropped ==
    /\ \A a \in Ids : FromDispatcher(a) =>
          IF actions[a].pc = "queued"
          THEN Cardinality(Positions(queue, a)) = 1 /\ Positions(started, a) = {}
          ELSE Positions(queue, a) = {} /\ Cardinality(Positions(started, a)) = 1
    /\ \A i, j \in 1..Len(queue) : i < j => queue[i] < queue[j]

\* one action of the dispatcher is done, a second one is executing and a third
\* one is still queued
C11_Witness ==
    \E a, b, c \in Ids :
        /\ FromDispatcher(a) /\ FromDispatcher(b) /\ FromDispatcher(c)
        /\ actions[a].pc = "done"
        /\ b \in Running
        /\ actions[c].pc = "queued"

\* C11 (original): every action the dispatcher created is executed exactly
\* once, so none is left unexecuted in the queue once the scheduler has stopped.
C11_ExactlyOnce ==
    /\ C11_AtMostOnceNeverDropped
    /\ spc = "stopped" => \A a \in Ids : FromDispatcher(a) => actions[a].pc = "done"

\* what a plain Action has done so far: nothing before its execute, one target
\* invocation without a step argument after it
PlainActionOnce ==
    \A a \in Ids : actions[a].cls = "Action" =>
        /\ actions[a].n = (IF actions[a].pc = "done" THEN 1 ELSE 0)
        /\ lastCall.act = a => (lastCall.k = 1 /\ lastCall.kwargs = <<>>)

\* C12: the dispatcher's last step for a resolved non-release event submits
\* exactly one action, a RepeatingAction that accelerates iff the mapping's
\* accelerates is true when the mapping has repeat, a plain Action otherwise;
\* no other step of the dispatcher submits anything; a plain Action invokes its
\* target exactly once, without a step argument.
C12_OneActionPerPress ==
    [][/\ (dpc = "branch" /\ dpc' = "head" /\ KeymapMap(data).value \notin {"None", KEY_RELEASE})
            => /\ Len(actions') = Len(actions) + 1
               /\ queue' = Append(queue, Len(actions'))
               /\ LET new == actions'[Len(actions')]
                      m   == KeymapMap(data)
                  IN  /\ new.producer = "dispatcher"
                      /\ new.created_for = m.value
                      /\ new.pc = "queued"
                      /\ new.cls = (IF m.repeat THEN "RepeatingAction" ELSE "Action")
                      /\ m.repeat => (Truthy(new.accelerates) <=> m.accelerates = "True")
       /\ (dpc' # dpc /\ ~(dpc = "branch" /\ dpc' = "head"))
            => (queue' = queue /\ actions' = actions)
       /\ PlainActionOnce']_vars

\* the dispatcher has submitted a plain Action, a RepeatingAction without and
\* one with acceleration, and the plain Action has invoked its target once
C12_Witness ==
    \E a, b, c \in Ids :
        /\ actions[a].cls = "Action" /\ actions[a].pc = "done" /\ actions[a].n = 1
        /\ Repeating(b) /\ ~Accelerating(b) /\ actions[b].created_for = "up"
        /\ Accelerating(c) /\ actions[c].created_for = "volume_up"

\* C13: an iteration whose dequeue wait timed out has made the keep-alive
\* call and has dequeued nothing; an iteration that dequeued an action has made
\* no keep-alive call.
C13_KeepAliveOnTimeout ==
    /\ lastIter.kind = "timeout" => (lastIter.keep_alive /\ Running = {})
    /\ lastIter.kind = "action" => ~lastIter.keep_alive

\* C14: the scheduler thread enters its stopped state only from the loop head
\* and only with the exit signal set; an iteration that ends in the bare except
\* leads back to the loop head.
C14_StopsOnlyOnExit ==
    [][/\ (spc # "stopped" /\ spc' = "stopped") => (spc = "head" /\ exitFlag)
       /\ (spc # "head" /\ spc' # spc /\ lastIter'.caught) => spc' = "head"]_vars

\* an iteration has ended in the bare except and the scheduler is back at the
\* loop head with the exit signal unset and an action waiting
C14_Witness ==
    /\ lastIter.caught
    /\ spc = "head"
    /\ queue # <<>>
    /\ ~exitFlag

\* C15: when the process has ended after the exit signal, each loop that was
\* started has stopped at its loop head, and the Dispatcher has closed the raw
\* event source.
C15_LoopsStopAtHead ==
    mainPc = "returned" =>
        /\ dpc \in {"unstarted", "closed"}
        /\ spc \in {"unstarted", "stopped"}

\* the last self.dev.open call raised IOError
OpenFailed == opens # <<>> /\ ~opens[Len(opens)]

\* C16: when the open of the raw event source fails the process has exited: no
\* step of any thread is possible, the open was attempted once, the Dispatcher
\* thread was never started, no raw event was read and no action of the
\* Dispatcher was submitted.
C16_OpenFailureExits ==
    OpenFailed =>
        /\ mainPc = "exited"
        /\ ~ENABLED Next
        /\ Len(opens) = 1
        /\ dpc = "unstarted"
        /\ reads = 0
        /\ \A a \in Ids : ~FromDispatcher(a)

\* the open failed while the scheduler thread was already waiting on its queue
C16_Witness ==
    /\ OpenFailed
    /\ mainPc = "exited"
    /\ spc = "get"

\* C18: since the release signal was last set, and while it stays set, the
\* executing RepeatingAction has made at most one target invocation.
C18_OneCallAfterRelease == relCalls <= 1

\* a repeating action was past its loop-head check when the release was set,
\* has made that one invocation and is back at the loop head
C18_Witness ==
    /\ keyRelease
    /\ relCalls = 1
    /\ \E a \in Running :
          /\ Repeating(a)
          /\ actions[a].pc = "loop"
          /\ lastCall.act = a

\* C19: on every step in which the Dispatcher submits an action, the release
\* signal is unset before and after the step.
C19_UnsetAtSubmit ==
    [][(/\ Len(actions') > Len(actions)
        /\ actions'[Len(actions')].producer = "dispatcher")
       => (~keyRelease /\ ~keyRelease')]_vars

\* a release was set during a repeating action, and the Dispatcher has since
\* submitted the action of a later press with the signal unset
C19_Witness ==
    /\ relDuring # {}
    /\ dpc = "head"
    /\ Schedules(match)
    /\ ~keyRelease
    /\ queue # <<>>
    /\ FromDispatcher(queue[Len(queue)])
    /\ actions[queue[Len(queue)]].created_for = match.value

\* C20: whatever the scheduler thread is doing, the Dispatcher's next step is
\* enabled (a read while raw events remain, the mapping, the branch that sets
\* the release signal or submits the action), and the queue holds exactly the
\* accepted actions whose execute has not begun, in acceptance order.
C20_ScheduleNeverBlocks ==
    /\ ProcessAlive =>
          /\ dpc = "head" => ENABLED DispHead
          /\ (dpc = "read" /\ reads < MaxReads) => ENABLED DispRead
          /\ dpc = "map" => ENABLED DispMap
          /\ dpc = "branch" => ENABLED DispBranch
    /\ Len(queue) = Len(actions) - Len(started)
    /\ \A i \in 1..Len(queue) : queue[i] = Len(started) + i

\* a repeating action occupies the scheduler, the Dispatcher has queued the
\* action of a further press behind it and has then set the release signal
C20_Witness ==
    /\ keyRelease
    /\ \E a \in Running :
          /\ Repeating(a)
          /\ a \in relDuring
          /\ queue # <<>>
          /\ \E i \in 1..Len(queue) : FromDispatcher(queue[i]) /\ queue[i] > a

\* the device the claim names: sources[active source] when the active source
\* is a key of sources, source_default otherwise
RoutedDevice ==
    IF \E p \in remote.sources : p[1] = remote.active_source
    THEN CHOOSE d \in Devices : <<remote.active_source, d>> \in remote.sources
    ELSE remote.source_default

\* the callables at button_map[command][RoutedDevice], none or one
RoutedCallables(command) ==
    {c \in Callables : \E inner \in SUBSET (Devices \X Callables) :
        /\ <<command, inner>> \in remote.button_map
        /\ <<RoutedDevice, c>> \in inner}

\* C17: the calls a press_button(command, **kwargs) makes are exactly one call
\* of button_map[command][d] with the same keyword arguments, d being
\* sources[active source] or else source_default, and no call when there is
\* no such entry; no step changes sources or button_map.
C17_PressButtonRouting ==
    [][/\ remote'.sources = remote.sources
       /\ remote'.button_map = remote.button_map
       /\ remote'.pressed # NoPress =>
             LET command == remote'.pressed.command
                 kwargs == remote'.pressed.kwargs
             IN /\ RoutedCallables(command) = {}
                      => remote'.invoked = <<>>
                /\ \A c \in RoutedCallables(command) :
                      remote'.invoked = <<[callable |-> c, kwargs |-> kwargs]>>]_vars

\* the active source is no key of sources, and a press with a step was routed
\* to the callable of the default device
C17_Witness ==
    /\ remote.pressed # NoPress
    /\ remote.active_source \notin Keys(remote.sources)
    /\ remote.source_default \in Devices
    /\ remote.sources # {}
    /\ remote.pressed.kwargs # {}
    /\ Len(remote.invoked) = 1

\* C21: every step that changes the release signal is a step of the
\* Dispatcher, from its read or from its branch on the mapped event, and in it
\* neither the Scheduler nor any action moves.
C21_OnlyDispatcherWrites ==
    [][keyRelease' # keyRelease
       => /\ dpc \in {"read", "branch"}
          /\ dpc' # dpc
          /\ spc' = spc
          /\ actions' = actions
          /\ started' = started
          /\ lastCall' = lastCall
          /\ lastIter' = lastIter]_vars

\* the Dispatcher set the signal during a repeating action, the action has
\* read it and returned, and the signal is still set
C21_Witness ==
    /\ keyRelease
    /\ \E a \in relDuring :
          /\ actions[a].pc = "done"
          /\ actions[a].n >= 1

\* the action whose execute began last
LastStarted == started[Len(started)]

IsExit(a) == actions[a].cls = "ExitAction"

\* an ExitAction whose execute has begun has invoked no target, every action
\* accepted after it is still queued, and once it is done the exit signal is set
ExitActionFinal ==
    \A e \in Ids : (IsExit(e) /\ actions[e].pc # "queued") =>
        /\ actions[e].n = 0
        /\ lastCall.act # e
        /\ actions[e].pc = "done" => exitFlag
        /\ \A b \in Ids : b > e => actions[b].pc = "queued"

\* C23: the execute of an ExitAction sets the exit signal, invokes no target
\* and returns to the loop head; no action queued behind an executed ExitAction
\* is ever executed; the exit signal, once set, stays set. With the signal set
\* the Scheduler leaves its loop head only to stop and begins an execution only
\* out of the wait it is already in, which it never enters again: at most one
\* further execution. With the signal set the Dispatcher leaves its loop head
\* only to close, never enters its read again and submits only in the branch
\* that follows the read it is already in: at most one further submission.
C23_ExitIsFinal ==
    [][/\ \A e \in Ids :
            (IsExit(e) /\ actions[e].pc = "call" /\ actions'[e] # actions[e])
            => (exitFlag' /\ spc' = "head" /\ lastCall' = lastCall)
       /\ ExitActionFinal'
       /\ exitFlag => exitFlag'
       /\ (exitFlag /\ spc = "head" /\ spc' # spc) => spc' = "stopped"
       /\ (exitFlag /\ spc # "get") => spc' # "get"
       /\ (exitFlag /\ started' # started)
            => (spc = "get" /\ spc' = "exec" /\ Len(started') = Len(started) + 1)
       /\ (exitFlag /\ dpc = "head" /\ dpc' # dpc) => dpc' = "closed"
       /\ (exitFlag /\ dpc # "read") => dpc' # "read"
       /\ (exitFlag /\ dpc' # dpc /\ dpc \in {"read", "map", "branch"})
            => dpc' = (CASE dpc = "read" -> "map" [] dpc = "map" -> "branch" [] dpc = "branch" -> "head")
       /\ (exitFlag /\ Len(actions') > Len(actions) /\ actions'[Len(actions')].producer = "dispatcher")
            => (dpc = "branch" /\ dpc' = "head" /\ Len(actions') = Len(actions) + 1)]_vars

\* an ExitAction was executed, the action the Dispatcher submitted last is
\* queued behind it, and the Scheduler has stopped without executing it
C23_Witness ==
    /\ exitFlag
    /\ spc = "stopped"
    /\ dpc = "head"
    /\ \E e, b \in Ids :
          /\ IsExit(e)
          /\ actions[e].pc = "done"
          /\ b > e
          /\ FromDispatcher(b)
          /\ actions[b].pc = "queued"
          /\ actions[b].created_for = match.value

====
